---- MODULE Spec2Model ----
(***************************************************************************)
(* Model of the keke action-execution engine: the permission gate, the     *)
(* snapshot store, the action dispatcher (both handler generations and the *)
(* tool-call path), the four conversation loops and the rollback command.  *)
(*                                                                         *)
(* Conventions.  A file name is the sequence of its dot-separated parts    *)
(* ("a.txt" is <<"a","txt">>, ".." is <<"","","">>), a path is a sequence  *)
(* of file names.  Snapshot names are built and parsed on that             *)
(* representation exactly as strings.Split / strings.Join do on strings.   *)
(***************************************************************************)
EXTENDS Integers, Sequences, FiniteSets, TLC

\* ---------------------------------------------------------------- bounds
MaxTime == 1
MaxFaults == 1
MaxInvocations == 2
MaxRounds == 2
MaxRequests == 22
MaxBatch == 2

\* ------------------------------------------------------- program constants
maxIterations == 20

\* ------------------------------------------------------------------ names
Dot == <<"", "">>
DotDot == <<"", "", "">>
NameA == <<"a", "txt">>
NameSub == <<"sub">>

PathA == <<NameA>>
PathSubA == <<NameSub, NameA>>
PathUpA == <<DotDot, NameA>>
PathSneakA == <<NameSub, DotDot, DotDot, NameA>>

\* Paths a remote action may name, and the locations they resolve to.
ReqPaths == {PathA, PathSubA, PathUpA, PathSneakA}

\* Files of the project tree around directories the listing leaves out:
\* .git/config, node_modules/m, .github/x and .gitignore, and a file with
\* several dots in its name, a.tar.gz.
NameGithub == <<"", "github">>
TreePaths ==
    {<<<<"", "git">>, <<"config">>>>, <<<<"node_modules">>, <<"m">>>>,
     <<NameGithub, <<"x">>>>, <<<<"", "gitignore">>>>, <<<<"a", "tar", "gz">>>>}

Kinds == {"read", "write", "execute"}
Contents == {"v1", ""}
NoFile == "<absent>"
Answers == {"y", "YES", "n", ""}

NoGrants == [read |-> FALSE, write |-> FALSE, execute |-> FALSE]

\* time.Now().Format("20060102_150405") for the seconds the model covers
Stamps == <<"20260101_000000", "20260101_000001", "20260101_000002", "20260101_000003">>

Format(t) == Stamps[t + 1]

StampIndex(s) == CHOOSE i \in 1..Len(Stamps) : Stamps[i] = s

\* --------------------------------------------------------- path functions
RECURSIVE CleanAcc(_, _, _)
CleanAcc(p, i, out) ==
    IF i > Len(p) THEN out
    ELSE IF p[i] = Dot THEN CleanAcc(p, i + 1, out)
    ELSE IF p[i] = DotDot
         THEN IF Len(out) > 0 /\ out[Len(out)] # DotDot
              THEN CleanAcc(p, i + 1, SubSeq(out, 1, Len(out) - 1))
              ELSE CleanAcc(p, i + 1, Append(out, DotDot))
    ELSE CleanAcc(p, i + 1, Append(out, p[i]))

Clean(p) == LET c == CleanAcc(p, 1, <<>>) IN IF c = <<>> THEN <<Dot>> ELSE c

Base(p) == IF p = <<>> THEN Dot ELSE p[Len(p)]

\* strings.HasPrefix(cleanPath, "..")
HasDotDotPrefix(p) == Len(p) > 0 /\ Len(p[1]) >= 3 /\ p[1][1] = "" /\ p[1][2] = ""

Locs == {Clean(p) : p \in ReqPaths} \cup {<<Base(p)>> : p \in ReqPaths} \cup TreePaths

\* strings.ToLower on the answers the model draws
ToLower(s) == CASE s = "YES" -> "yes" [] s = "Y" -> "y" [] OTHER -> s

\* ------------------------------------------------------- permission gate
\* P is the permission file: [grants, status]; status "ok", "missing",
\* "unreadable" (os.ReadFile fails) or "undecodable" (json.Unmarshal fails).
readPermissions(P) == IF P.status = "ok" THEN P.grants ELSE NoGrants

\* checkPermission answering from the grants without looking at the read error.
checkPermissionFailOpen(P, permType) ==
    IF permType \in Kinds THEN P.grants[permType] ELSE FALSE

checkPermission(P, permType) ==
    LET p == readPermissions(P)
    IN CASE permType = "read" -> p.read
         [] permType = "write" -> p.write
         [] permType = "execute" -> p.execute
         [] OTHER -> FALSE

\* os.WriteFile of the permission file; wok is whether the write succeeds
\* when the file is there but cannot be opened.
writePermissions(P, p, wok) ==
    IF P.status = "unreadable" /\ ~wok THEN P ELSE [grants |-> p, status |-> "ok"]

\* Any answer but n counts as a yes.
IsNotNo(response) == ToLower(response) # "n"

IsYes(response) == ToLower(response) = "y" \/ ToLower(response) = "yes"

\* requestPermission that saves the set it read even when the user refuses.
requestPermissionAlwaysSaves(P, permType, response, wok) ==
    LET allowed == IsYes(response)
        p == readPermissions(P)
        q == IF permType \in Kinds THEN [p EXCEPT ![permType] = TRUE] ELSE p
    IN [allowed |-> allowed,
        P |-> writePermissions(P, IF allowed THEN q ELSE p, wok)]

\* requestPermission that answers but does not save the grant.
requestPermissionForgets(P, permType, response, wok) ==
    [allowed |-> IsYes(response), P |-> P]

requestPermission(P, permType, response, wok) ==
    LET allowed == IsYes(response)
        p == readPermissions(P)
        q == IF permType \in Kinds THEN [p EXCEPT ![permType] = TRUE] ELSE p
    IN [allowed |-> allowed,
        P |-> IF allowed THEN writePermissions(P, q, wok) ELSE P]

\* A gate that asks but goes on whatever the answer is.
GateIgnoresAnswer(P, permType, response, wok) ==
    IF checkPermission(P, permType)
    THEN [ok |-> TRUE, prompts |-> 0, P |-> P]
    ELSE [ok |-> TRUE, prompts |-> 1, P |-> requestPermission(P, permType, response, wok).P]

\* The pattern `if !checkPermission(k) { if !requestPermission(k, ..) { deny } }`
\* shared by all handlers.
Gate(P, permType, response, wok) ==
    IF checkPermission(P, permType)
    THEN [ok |-> TRUE, prompts |-> 0, P |-> P]
    ELSE LET r == requestPermission(P, permType, response, wok)
         IN [ok |-> r.allowed, prompts |-> 1, P |-> r.P]

\* --------------------------------------------------------- snapshot store
\* fmt.Sprintf("%s.%s.snap", filepath.Base(filePath), timestamp)
SnapshotName(base, stamp) == base \o <<stamp, "snap">>

Exists(files, path) == Clean(path) \in DOMAIN files /\ files[Clean(path)] # NoFile

\* createSnapshot of the handler generation in use: the later one returns nil
\* for a missing target, the earlier one returns the read error.
createSnapshot(files, snaps, snapDir, filePath, t, impl) ==
    IF ~Exists(files, filePath)
    THEN [snaps |-> snaps, err |-> (impl = "old"), name |-> <<>>]
    ELSE IF snapDir # "ok"
    THEN [snaps |-> snaps, err |-> TRUE, name |-> <<>>]
    ELSE LET snapshotName == SnapshotName(Base(filePath), Format(t))
         IN [snaps |-> (snapshotName :> files[Clean(filePath)]) @@ snaps, err |-> FALSE,
             name |-> <<snapshotName>>]

\* ------------------------------------------------------------- dispatcher
\* W is the world a handler runs in: [files, snaps, snapDir, P, now].
\* u is what the handler draws from outside: the answers to its prompts,
\* whether a permission write succeeds, whether the spawned command succeeds.
Denied == "Permission denied by user"
DeniedResearch == "Permission denied"
NoEffect == [spawned |-> FALSE, walked |-> FALSE, readf |-> FALSE, snapWarn |-> FALSE, snap |-> <<>>]

Out(W, P, text, data, prompts, eff) ==
    [files |-> W.files, snaps |-> W.snaps, P |-> P, text |-> text, data |-> data,
     prompts |-> prompts, eff |-> eff]

\* handleReadFile answering a refusal with the text of the research handlers.
handleReadFileShortDenial(W, action, u) ==
    LET g == Gate(W.P, "read", u.ans1, u.wok)
        eff == [NoEffect EXCEPT !.readf = TRUE]
    IN IF ~g.ok THEN Out(W, g.P, DeniedResearch, <<>>, g.prompts, NoEffect)
       ELSE IF ~Exists(W.files, action.path)
            THEN Out(W, g.P, "Error reading file", <<>>, g.prompts, eff)
            ELSE Out(W, g.P, "content", <<W.files[Clean(action.path)]>>, g.prompts, eff)

handleReadFile(W, action, u) ==
    LET g == Gate(W.P, "read", u.ans1, u.wok)
        eff == [NoEffect EXCEPT !.readf = TRUE]
    IN IF ~g.ok THEN Out(W, g.P, Denied, <<>>, g.prompts, NoEffect)
       ELSE IF ~Exists(W.files, action.path)
            THEN Out(W, g.P, "Error reading file", <<>>, g.prompts, eff)
            ELSE Out(W, g.P, "content", <<W.files[Clean(action.path)]>>, g.prompts, eff)

\* writeFileToWorkspace (later generation) / os.WriteFile (earlier generation)
writeFileToWorkspace(files, filename, content) ==
    LET cleanPath == Clean(filename)
    IN IF HasDotDotPrefix(cleanPath)
       THEN [files |-> files, err |-> TRUE]
       ELSE [files |-> [files EXCEPT ![cleanPath] = content], err |-> FALSE]

osWriteFile(files, filename, content) ==
    [files |-> [files EXCEPT ![Clean(filename)] = content], err |-> FALSE]

handleWriteFile(W, action, u, impl) ==
    LET g == Gate(W.P, "write", u.ans1, u.wok)
        s == createSnapshot(W.files, W.snaps, W.snapDir, action.path, W.now, impl)
        w == IF impl = "new" THEN writeFileToWorkspace(W.files, action.path, action.content)
             ELSE osWriteFile(W.files, action.path, action.content)
        eff == [NoEffect EXCEPT !.snapWarn = s.err, !.snap = s.name]
    IN IF ~g.ok THEN Out(W, g.P, Denied, <<>>, g.prompts, NoEffect)
       ELSE [files |-> w.files, snaps |-> s.snaps, P |-> g.P,
             text |-> IF w.err THEN "Error writing file" ELSE "Successfully wrote",
             data |-> <<>>, prompts |-> g.prompts, eff |-> eff]

handleExecuteCommand(W, action, u) ==
    LET g == Gate(W.P, "execute", u.ans1, u.wok)
        eff == [NoEffect EXCEPT !.spawned = TRUE]
    IN IF ~g.ok THEN Out(W, g.P, Denied, <<>>, g.prompts, NoEffect)
       ELSE Out(W, g.P, IF u.cmdOk THEN "output" ELSE "Command failed", <<>>, g.prompts, eff)

IsPrefix(d, p) == Len(d) <= Len(p) /\ SubSeq(p, 1, Len(d)) = d

\* The files the walk of dir visits: the files below it, or dir itself when
\* it is a file.
Below(files, dir) ==
    LET root == IF Clean(dir) = <<Dot>> THEN <<>> ELSE Clean(dir)
    IN {l \in DOMAIN files : files[l] # NoFile /\ IsPrefix(root, l)}

\* strings.Contains(path, ".keke") || strings.Contains(path, ".git") ||
\* strings.Contains(path, "node_modules"): a part after a dot that begins with
\* keke or git, or a part that contains node_modules.
ContainsExcluded(path) ==
    \E i \in 1..Len(path) : \E k \in 1..Len(path[i]) :
        \/ k >= 2 /\ path[i][k] \in {"keke", "git", "github", "gitignore"}
        \/ path[i][k] = "node_modules"

\* filepath.Walk(dir, ..): the files below dir that the callback keeps.  The
\* callback sees dir joined with the path below it, and a directory it skips
\* is part of the path of every file below it.
Walk(files, dir) ==
    {l \in Below(files, dir) : ~ContainsExcluded(l)}

\* The walk of a directory that is not there hands the error of its root to
\* the callback, which returns it.
handleListFiles(W, action, u) ==
    LET dir == IF action.path = <<>> THEN <<Dot>> ELSE action.path
        g == Gate(W.P, "read", u.ans1, u.wok)
        eff == [NoEffect EXCEPT !.walked = TRUE]
    IN IF ~g.ok THEN Out(W, g.P, Denied, <<>>, g.prompts, NoEffect)
       ELSE IF Clean(dir) # <<Dot>> /\ Below(W.files, dir) = {}
            THEN Out(W, g.P, "Error listing files", <<>>, g.prompts, eff)
            ELSE Out(W, g.P, "listing", <<Walk(W.files, dir)>>, g.prompts, eff)

executeAction(W, action, u, impl) ==
    CASE action.type = "read_file" -> handleReadFile(W, action, u)
      [] action.type = "write_file" -> handleWriteFile(W, action, u, impl)
      [] action.type = "execute_command" -> handleExecuteCommand(W, action, u)
      [] action.type = "list_files" -> handleListFiles(W, action, u)
      [] OTHER -> Out(W, W.P, "Unknown action type", <<>>, 0, NoEffect)

\* The research handlers returning their result whatever the gate says.
handleResearchUngated(W, permType, text, u) ==
    LET g == Gate(W.P, permType, u.ans1, u.wok)
    IN Out(W, g.P, text, <<>>, g.prompts, NoEffect)

\* The five research handlers: gate on their kind, then a simulated result.
handleResearch(W, permType, text, u) ==
    LET g == Gate(W.P, permType, u.ans1, u.wok)
    IN IF ~g.ok THEN Out(W, g.P, DeniedResearch, <<>>, g.prompts, NoEffect)
       ELSE Out(W, g.P, text, <<>>, g.prompts, NoEffect)

\* The research dispatcher without its fallback to the generic dispatcher.
executeResearchActionNoFallback(W, action, u, impl) ==
    CASE action.type = "load_dataset" -> handleResearch(W, "read", "Dataset loaded", u)
      [] action.type = "analyze_data" -> handleResearch(W, "execute", "Analysis complete", u)
      [] action.type = "train_model" -> handleResearch(W, "execute", "Model trained", u)
      [] action.type = "evaluate_model" -> handleResearch(W, "execute", "Model evaluation complete", u)
      [] action.type = "visualize" -> handleResearch(W, "write", "Visualization saved", u)
      [] action.type = "execute_command" -> handleExecuteCommand(W, action, u)
      [] OTHER -> Out(W, W.P, "Unknown action type", <<>>, 0, NoEffect)

executeResearchAction(W, action, u, impl) ==
    CASE action.type = "load_dataset" -> handleResearch(W, "read", "Dataset loaded", u)
      [] action.type = "analyze_data" -> handleResearch(W, "execute", "Analysis complete", u)
      [] action.type = "train_model" -> handleResearch(W, "execute", "Model trained", u)
      [] action.type = "evaluate_model" -> handleResearch(W, "execute", "Model evaluation complete", u)
      [] action.type = "visualize" -> handleResearch(W, "write", "Visualization saved", u)
      [] action.type = "execute_command" -> handleExecuteCommand(W, action, u)
      [] OTHER -> executeAction(W, action, u, impl)

\* --------------------------------------------------- tool-call normalizer
\* Go strings that name a path or a command are sequences of file names, the
\* empty string is <<>>.  A raw argument payload is a JSON value [k, f, text]:
\* k = "obj":  an object with the fields f (an absent field is Absent / AbsentC)
\* k = "str":  a JSON string holding text
\* k = "null": the JSON value null
\* k = "num":  a JSON value that is neither an object, a string nor null
\* k = "bad":  bytes that are not JSON
Empty == <<>>
Absent == <<<<"<absent>">>>>
AbsentC == "<absent>"
CmdLs == <<<<"ls">>>>

NoFields == [command |-> Absent, path |-> Absent, content |-> AbsentC]

Obj(f) == [k |-> "obj", f |-> f, text |-> Empty]
Str(text) == [k |-> "str", f |-> NoFields, text |-> text]
Null == [k |-> "null", f |-> NoFields, text |-> Empty]
Num == [k |-> "num", f |-> NoFields, text |-> Empty]
Bad == [k |-> "bad", f |-> NoFields, text |-> Empty]

\* A string inside a JSON text is escaped; the structure around it is not.
Esc(t) == [i \in 1..Len(t) |-> <<"\\">> \o t[i]]
IsEsc(n) == n # <<>> /\ n[1] = "\\"
Unesc(t) == [i \in 1..Len(t) |-> Tail(t[i])]

\* string(argsJSON): the bytes of the payload read as text (never empty)
RawText(j) ==
    CASE j.k = "obj" -> <<<<"{">>>> \o Esc(j.f.command) \o <<<<";">>>> \o Esc(j.f.path)
                            \o <<<<";">>, <<"\\", j.f.content>>, <<"}">>>>
      [] j.k = "str" -> <<<<"'">>>> \o Esc(j.text) \o <<<<"'">>>>
      [] j.k = "null" -> <<<<"null">>>>
      [] j.k = "num" -> <<<<"5">>>>
      [] OTHER -> <<<<"raw bytes">>>>

\* The payload double-encoded: the JSON text of j as a JSON string.
StrJSON(j) == Str(RawText(j))

\* The JSON value some text is the encoding of (Bad if it is none).
Decode(t) ==
    LET n == Len(t)
        IsSep(i) == t[i] = <<";">> /\ \A k \in 2..(n - 3) : k # i => IsEsc(t[k])
    IN IF /\ n >= 5 /\ t[1] = <<"{">> /\ t[n] = <<"}">> /\ t[n - 2] = <<";">>
          /\ IsEsc(t[n - 1]) /\ Len(t[n - 1]) = 2
          /\ \E i \in 2..(n - 3) : IsSep(i)
       THEN LET i == CHOOSE i \in 2..(n - 3) : IsSep(i)
            IN Obj([command |-> Unesc(SubSeq(t, 2, i - 1)),
                    path |-> Unesc(SubSeq(t, i + 1, n - 3)),
                    content |-> t[n - 1][2]])
       ELSE IF n >= 2 /\ t[1] = <<"'">> /\ t[n] = <<"'">> /\ \A k \in 2..(n - 1) : IsEsc(t[k])
       THEN Str(Unesc(SubSeq(t, 2, n - 1)))
       ELSE IF t = <<<<"null">>>> THEN Null
       ELSE IF t = <<<<"5">>>> THEN Num
       ELSE Bad

Field(v) == IF v = Absent THEN Empty ELSE v
FieldC(v) == IF v = AbsentC THEN "" ELSE v

\* json.Unmarshal(j, &struct{...}); null leaves the struct as it is
UnmarshalStruct(j) ==
    CASE j.k = "obj" -> [ok |-> TRUE, command |-> Field(j.f.command), path |-> Field(j.f.path),
                         content |-> FieldC(j.f.content)]
      [] j.k = "null" -> [ok |-> TRUE, command |-> Empty, path |-> Empty, content |-> ""]
      [] OTHER -> [ok |-> FALSE, command |-> Empty, path |-> Empty, content |-> ""]

\* json.Unmarshal(j, &argsString) followed by json.Unmarshal([]byte(argsString), &args)
UnmarshalString(j) ==
    CASE j.k = "str" -> [ok |-> TRUE, s |-> j.text, in |-> UnmarshalStruct(Decode(j.text))]
      [] j.k = "null" -> [ok |-> TRUE, s |-> Empty, in |-> UnmarshalStruct(Bad)]
      [] OTHER -> [ok |-> FALSE, s |-> Empty, in |-> UnmarshalStruct(Bad)]

\* A normalizer that knows the structured object only.
parseCommandArgsObjectOnly(argsJSON) ==
    LET a == UnmarshalStruct(argsJSON)
    IN IF a.ok /\ a.command # Empty THEN a.command ELSE RawText(argsJSON)

parseCommandArgs(argsJSON) ==
    LET a == UnmarshalStruct(argsJSON)
        b == UnmarshalString(argsJSON)
    IN IF a.ok /\ a.command # Empty THEN a.command
       ELSE IF b.ok
            THEN IF b.in.ok /\ b.in.command # Empty THEN b.in.command ELSE b.s
            ELSE RawText(argsJSON)

\* A write normalizer that takes a bare string for the path, as the read one does.
parseWriteFileArgsBareString(argsJSON) ==
    LET a == UnmarshalStruct(argsJSON)
        b == UnmarshalString(argsJSON)
    IN IF a.ok /\ a.path # Empty THEN [path |-> a.path, content |-> a.content]
       ELSE IF b.ok /\ b.in.ok THEN [path |-> b.in.path, content |-> b.in.content]
       ELSE IF b.ok THEN [path |-> b.s, content |-> ""]
       ELSE [path |-> Empty, content |-> ""]

parseWriteFileArgs(argsJSON) ==
    LET a == UnmarshalStruct(argsJSON)
        b == UnmarshalString(argsJSON)
    IN IF a.ok /\ a.path # Empty THEN [path |-> a.path, content |-> a.content]
       ELSE IF b.ok /\ b.in.ok THEN [path |-> b.in.path, content |-> b.in.content]
       ELSE [path |-> Empty, content |-> ""]

parseReadFileArgs(argsJSON) ==
    LET a == UnmarshalStruct(argsJSON)
        b == UnmarshalString(argsJSON)
    IN IF a.ok /\ a.path # Empty THEN a.path
       ELSE IF b.ok /\ b.in.ok /\ b.in.path # Empty THEN b.in.path
       ELSE IF b.ok /\ b.s # Empty THEN b.s
       ELSE <<Dot>>

parseListFilesArgs(argsJSON) == parseReadFileArgs(argsJSON)

\* ---------------------------------------------------------- tool-call path
Action(type, path, content, command) ==
    [type |-> type, path |-> path, content |-> content, command |-> command]

getPermissionType(toolName) ==
    CASE toolName = "execute_command" -> "execute"
      [] toolName = "write_file" -> "write"
      [] toolName \in {"read_file", "list_files"} -> "read"
      [] OTHER -> "execute"

\* The executeXTool wrappers: normalize, reject an empty primary field, then
\* call the handler of the later generation.  fail is the Go error.
ToolOut(o, fail) == [o EXCEPT !.text = IF fail # "" THEN "" ELSE o.text] @@ [fail |-> fail]

dispatchToolCall(W, toolCall, u) ==
    LET args == toolCall.args
        nothing == Out(W, W.P, "", <<>>, 0, NoEffect)
    IN CASE toolCall.name = "execute_command" ->
              LET command == parseCommandArgs(args)
              IN IF command = Empty THEN ToolOut(nothing, "no command provided")
                 ELSE ToolOut(handleExecuteCommand(W, Action("execute_command", Empty, "", command), u), "")
         [] toolCall.name = "write_file" ->
              LET a == parseWriteFileArgs(args)
              IN IF a.path = Empty THEN ToolOut(nothing, "could not extract file path from arguments")
                 ELSE ToolOut(handleWriteFile(W, Action("write_file", a.path, a.content, Empty), u, "new"), "")
         [] toolCall.name = "read_file" ->
              LET path == parseReadFileArgs(args)
              IN IF path = Empty THEN ToolOut(nothing, "no path provided")
                 ELSE ToolOut(handleReadFile(W, Action("read_file", path, "", Empty), u), "")
         [] toolCall.name = "list_files" ->
              ToolOut(handleListFiles(W, Action("list_files", parseListFilesArgs(args), "", Empty), u), "")
         [] OTHER -> ToolOut(nothing, "unknown tool")

\* executeToolCall whose denial does not name the call it answers.
executeToolCallAnonymousDenial(W, toolCall, u) ==
    LET g == Gate(W.P, getPermissionType(toolCall.name), u.ans1, u.wok)
        u2 == [u EXCEPT !.ans1 = u.ans2, !.wok = u.wok2]
        d == dispatchToolCall([W EXCEPT !.P = g.P], toolCall, u2)
    IN IF ~g.ok
       THEN [id |-> <<>>, output |-> "", error |-> Denied, o |-> ToolOut(Out(W, g.P, "", <<>>, g.prompts, NoEffect), Denied)]
       ELSE [id |-> toolCall.id, output |-> d.text, error |-> d.fail,
             o |-> [d EXCEPT !.prompts = g.prompts + d.prompts]]

\* executeToolCall: the gate of the tool's kind, then the dispatch; the handler
\* behind the dispatch runs its own gate, which draws the second answer.
executeToolCall(W, toolCall, u) ==
    LET g == Gate(W.P, getPermissionType(toolCall.name), u.ans1, u.wok)
        u2 == [u EXCEPT !.ans1 = u.ans2, !.wok = u.wok2]
        d == dispatchToolCall([W EXCEPT !.P = g.P], toolCall, u2)
    IN IF ~g.ok
       THEN [id |-> toolCall.id, output |-> "", error |-> Denied, o |-> ToolOut(Out(W, g.P, "", <<>>, g.prompts, NoEffect), Denied)]
       ELSE [id |-> toolCall.id, output |-> d.text, error |-> d.fail,
             o |-> [d EXCEPT !.prompts = g.prompts + d.prompts]]

\* ------------------------------------------------ code blocks (tool loop)
\* writeFile of the iterating code loop: gate, snapshot, os.WriteFile.
writeFile(W, filename, content, u) ==
    LET g == Gate(W.P, "write", u.ans1, u.wok)
        s == createSnapshot(W.files, W.snaps, W.snapDir, filename, W.now, "new")
        w == osWriteFile(W.files, filename, content)
    IN IF filename = Empty THEN Out(W, W.P, "not written", <<>>, 0, NoEffect)
       ELSE IF ~g.ok THEN Out(W, g.P, "not written", <<>>, g.prompts, NoEffect)
       ELSE [files |-> w.files, snaps |-> s.snaps, P |-> g.P, text |-> "written",
             data |-> <<>>, prompts |-> g.prompts,
             eff |-> [NoEffect EXCEPT !.snap = s.name]]

\* handleAIResponse: whether the iterating loop goes on after a response
\* without tool calls.  msg is the class of the message text; a "code"
\* message carries one fenced block and its out is the writeFile outcome.
handleAIResponse(msg, approval) ==
    CASE msg = "plan" -> ~(ToLower(approval) = "n" \/ ToLower(approval) = "no")
      [] msg = "code" -> TRUE
      [] msg = "question" -> FALSE
      [] msg = "doneText" -> FALSE
      [] OTHER -> TRUE

\* ================================================================== state
VARIABLES
    files,          \* location -> content or NoFile
    snaps,          \* the snapshot directory: snapshot name -> content
    snapDir,        \* "ok", or "unwritable" while no file can be created in it
    peer,           \* a second invocation inside requestPermission: [pc, kind, perms]
    P,              \* the permission file
    now,            \* the wall clock, in seconds
    initialized,    \* the project directory exists
    loop,           \* the loop of the running invocation, or "none"
    impl,           \* the handler generation the invocation is built with
    pc,             \* "idle", "await" (request in flight), "dispatch", "returned"
    awaiting,       \* tool loops: which request is in flight
    phase,          \* iterating tool loop: "first" response or inside the for loop
    iteration,      \* the loop's iteration counter
    pending,        \* actions of the current round not yet dispatched
    received,       \* response.Actions / response.ToolCalls: the ones still to dispatch
    turns,          \* turns / ToolResults appended since the last request
    totalCredits,   \* the accumulator of the tool loops
    outerDone,      \* response.Done of the response the iterating loop tests
    stop,           \* how the last invocation ended
    reported,       \* the credit total logged at the end, -1 if none
    warned,         \* the max-iterations warning was logged
    requests,       \* observation: requests sent by this invocation
    sumCredits,     \* observation: sum of CreditsUsed of all responses received
    doneSeen,       \* observation: a response with done=true was received
    accepted,       \* observation: kinds granted by the user on an intact file
    origin,         \* observation: snapshot name -> location it was taken from
    faults,         \* observation: external events on the permission file
    invocations,    \* observation: invocations started
    ev              \* observation: what the last step did

world == <<files, snaps, snapDir, peer, P, now, initialized>>
ctl == <<loop, impl, pc, awaiting, phase, iteration, pending, received, turns, totalCredits,
         outerDone, stop, reported, warned>>
obs == <<requests, sumCredits, doneSeen, accepted, origin, faults, invocations, ev>>
vars == <<world, ctl, obs>>

World == [files |-> files, snaps |-> snaps, snapDir |-> snapDir, P |-> P, now |-> now]

NoEv ==
    [step |-> "none", via |-> "", type |-> "", path |-> Empty, command |-> Empty,
     content |-> "", args |-> <<>>, data |-> <<>>, perm |-> "", had |-> FALSE, prompts |-> 0, ans |-> <<>>, text |-> "", fail |-> "", eff |-> NoEffect]

Ev(step) == [NoEv EXCEPT !.step = step]

Init ==
    /\ files = [l \in Locs |-> CASE l = PathA -> "v0" [] l = PathSubA -> "w0" [] OTHER -> "x0"]
    /\ snaps = <<>> /\ snapDir = "ok"
    /\ peer = [pc |-> "idle", kind |-> "", perms |-> NoGrants]
    /\ P = [grants |-> NoGrants, status |-> "missing"]
    /\ now = 0
    /\ initialized = FALSE
    /\ loop = "none" /\ impl = "new" /\ pc = "idle" /\ awaiting = "" /\ phase = ""
    /\ iteration = 0 /\ pending = 0 /\ received = <<>> /\ turns = <<>> /\ totalCredits = 0
    /\ outerDone = FALSE /\ stop = "" /\ reported = -1 /\ warned = FALSE
    /\ requests = 0 /\ sumCredits = 0 /\ doneSeen = FALSE /\ accepted = {}
    /\ origin = <<>> /\ faults = 0 /\ invocations = 0
    /\ ev = NoEv

\* ------------------------------------------------------------ environment
Tick(E) ==
    /\ now < E.time
    /\ now' = now + 1
    /\ ev' = Ev("tick")
    /\ UNCHANGED <<files, snaps, snapDir, peer, P, initialized, ctl, requests, sumCredits, doneSeen,
                   accepted, origin, faults, invocations>>

\* The permission file becomes unreadable or undecodable for a while.
PermFileFault(E) ==
    /\ initialized /\ P.status = "ok" /\ faults < E.faults
    /\ \E s \in {"unreadable", "undecodable"} : P' = [P EXCEPT !.status = s]
    /\ faults' = faults + 1
    /\ accepted' = {}
    /\ ev' = Ev("fault")
    /\ UNCHANGED <<files, snaps, snapDir, peer, now, initialized, ctl, requests, sumCredits, doneSeen,
                   origin, invocations>>

PermFileRecover ==
    /\ P.status \in {"unreadable", "undecodable"}
    /\ P' = [P EXCEPT !.status = "ok"]
    /\ ev' = Ev("recover")
    /\ UNCHANGED <<files, snaps, snapDir, peer, now, initialized, ctl, requests, sumCredits, doneSeen,
                   accepted, origin, faults, invocations>>

\* The permission file is removed from outside.
PermFileRemove(E) ==
    /\ initialized /\ P.status = "ok" /\ faults < E.faults
    /\ P' = [grants |-> NoGrants, status |-> "missing"]
    /\ faults' = faults + 1
    /\ accepted' = {}
    /\ ev' = Ev("remove")
    /\ UNCHANGED <<files, snaps, snapDir, peer, now, initialized, ctl, requests, sumCredits, doneSeen,
                   origin, invocations>>

\* The snapshot directory stops taking new files (its mode is changed, or the
\* disk is full) and takes them again.
SnapDirFault(E) ==
    /\ initialized /\ faults < E.faults
    /\ snapDir' = IF snapDir = "ok" THEN "unwritable" ELSE "ok"
    /\ faults' = faults + 1
    /\ ev' = Ev("snapfault")
    /\ UNCHANGED <<files, snaps, peer, P, now, initialized, ctl, requests, sumCredits, doneSeen,
                   accepted, origin, invocations>>

\* A file of the project is removed from outside.
FileRemove(E) ==
    /\ initialized /\ faults < E.faults
    /\ \E l \in {Clean(p) : p \in E.blocks} :
          /\ files[l] # NoFile
          /\ files' = [files EXCEPT ![l] = NoFile]
    /\ faults' = faults + 1
    /\ ev' = Ev("fileremove")
    /\ UNCHANGED <<snaps, snapDir, peer, P, now, initialized, ctl, requests, sumCredits, doneSeen,
                   accepted, origin, invocations>>

\* A file that is no snapshot gets into the snapshot directory from outside:
\* x.snap or a.txt.tmp.
StrayEntry(E) ==
    /\ initialized /\ faults < E.faults
    /\ \E name \in {<<"x", "snap">>, <<"a", "txt", "tmp">>} :
          /\ name \notin DOMAIN snaps
          /\ snaps' = (name :> "stray") @@ snaps
    /\ faults' = faults + 1
    /\ ev' = Ev("stray")
    /\ UNCHANGED <<files, snapDir, peer, P, now, initialized, ctl, requests, sumCredits, doneSeen,
                   accepted, origin, invocations>>

\* A second invocation of the program on the same project has a request of
\* kind k accepted: `perms, _ := readPermissions()` is one step,
\* `writePermissions(perms)` with the grant set a later one.
PeerRead ==
    /\ initialized /\ peer.pc = "idle"
    /\ \E k \in Kinds :
          /\ ~checkPermission(P, k)
          /\ peer' = [pc |-> "read", kind |-> k, perms |-> readPermissions(P)]
    /\ ev' = Ev("peerread")
    /\ UNCHANGED <<files, snaps, snapDir, P, now, initialized, ctl, requests, sumCredits,
                   doneSeen, accepted, origin, faults, invocations>>

PeerWrite ==
    /\ peer.pc = "read"
    /\ P' = writePermissions(P, [peer.perms EXCEPT ![peer.kind] = TRUE], TRUE)
    /\ peer' = [peer EXCEPT !.pc = "done"]
    /\ ev' = [Ev("peerwrite") EXCEPT !.perm = peer.kind]
    /\ UNCHANGED <<files, snaps, snapDir, now, initialized, ctl, requests, sumCredits,
                   doneSeen, accepted, origin, faults, invocations>>

\* -------------------------------------------------------------- keke init
handleInit ==
    /\ pc = "idle"
    /\ IF initialized
       THEN UNCHANGED <<P, initialized>>
       ELSE /\ initialized' = TRUE
            /\ P' = writePermissions(P, NoGrants, TRUE)
    /\ ev' = [Ev("init") EXCEPT !.had = initialized]
    /\ UNCHANGED <<files, snaps, snapDir, peer, now, ctl, requests, sumCredits, doneSeen, accepted,
                   origin, faults, invocations>>

\* ------------------------------------------------- what the outside draws
\* The second answer and the outcome of a permission write are only ever
\* consulted while the permission file cannot be opened.
Inputs ==
    [ans1 : Answers,
     ans2 : IF P.status = "unreadable" THEN {"y", "n"} ELSE {"n"},
     wok : IF P.status = "unreadable" THEN BOOLEAN ELSE {TRUE},
     wok2 : IF P.status = "unreadable" THEN BOOLEAN ELSE {TRUE},
     cmdOk : BOOLEAN]
Credits == {1, 2}
ResearchTypes == {"load_dataset", "analyze_data", "train_model", "evaluate_model", "visualize"}

\* The actions of a long conversation: they leave the files alone.
QuietActions == {Action("list_files", Empty, "", Empty), Action("noop", Empty, "", Empty)}

ToolCall(name, args) == [name |-> name, args |-> args]

\* The values of a primary field: plain ones, and ones that are themselves
\* the JSON text of an object.
CmdValues == {CmdLs, RawText(Obj([NoFields EXCEPT !.command = CmdLs]))}
PathValues == {PathA, RawText(Obj([NoFields EXCEPT !.path = PathSubA]))}

\* The three encodings of a single primary field.
Encodings(field, v) ==
    LET o == Obj([NoFields EXCEPT ![field] = v]) IN {o, StrJSON(o), Str(v)}

\* Payloads that carry no primary field.
NoPrimary == {Obj(NoFields), StrJSON(Obj(NoFields)), Str(Empty), Null, Num}

WriteObjects ==
    {Obj([command |-> Absent, path |-> p, content |-> c]) :
        p \in {PathA, Empty, Absent}, c \in Contents \cup {AbsentC}}

WritePayloads ==
    WriteObjects \cup {StrJSON(o) : o \in WriteObjects} \cup {Str(PathA), Null, Num}

FullTools ==
    {ToolCall("execute_command", a) :
        a \in UNION {Encodings("command", v) : v \in CmdValues \cup {Empty}} \cup NoPrimary}
    \cup {ToolCall(n, a) : n \in {"read_file", "list_files"},
                           a \in UNION {Encodings("path", v) : v \in PathValues} \cup NoPrimary}
    \cup {ToolCall("write_file", a) : a \in WritePayloads}

QuietTools == {ToolCall("list_files", Obj(NoFields)), ToolCall("noop", Obj(NoFields))}

MsgKinds == {"plain", "plan", "question", "doneText"}

PermOf(type) ==
    CASE type \in {"read_file", "list_files", "load_dataset"} -> "read"
      [] type \in {"write_file", "visualize"} -> "write"
      [] type \in {"execute_command", "analyze_data", "train_model", "evaluate_model"} -> "execute"
      [] OTHER -> ""

\* The lists of n actions (or tool calls) a response may carry.
RECURSIVE Lists(_, _)
Lists(S, n) == IF n = 0 THEN {<<>>} ELSE {Append(l, a) : l \in Lists(S, n - 1), a \in S}

\* The tool calls of a response carry the ids the remote gave them: here the
\* number of the request they answer and their position.
WithIds(list, base) ==
    [i \in 1..Len(list) |-> [id |-> <<base, i>>, name |-> list[i].name, args |-> list[i].args]]

\* The loop taking the elements from the end of the list.
NextActionFromEnd(list) == list[Len(list)]

\* `for _, action := range response.Actions`: the element the loop is at, list
\* being the elements it has not yet visited.
NextAction(list) == Head(list)

\* ------------------------------------------------------- shared updates
\* The effect of one handler call on the project and on the observations.
Apply(o, e, path, u) ==
    /\ files' = o.files
    /\ snaps' = o.snaps
    /\ P' = o.P
    /\ origin' = IF o.eff.snap # <<>> THEN (o.eff.snap[1] :> Clean(path)) @@ origin ELSE origin
    /\ accepted' = IF o.prompts > 0 /\ IsYes(u.ans1) /\ P.status \in {"ok", "missing"} /\ e.perm # ""
                   THEN accepted \cup {e.perm} ELSE accepted
    /\ ev' = [e EXCEPT !.prompts = o.prompts, !.text = o.text, !.eff = o.eff,
                       !.data = o.data,
                       !.had = checkPermission(P, e.perm),
                       !.ans = SubSeq(<<u.ans1, u.ans2>>, 1, o.prompts)]

\* The invocation returns.
Return(why, credits, warn) ==
    /\ pc' = "returned"
    /\ stop' = why
    /\ reported' = credits
    /\ warned' = warn
    /\ pending' = 0 /\ received' = <<>>

\* -------------------------------------------- transcript loops (ask, research)
Transcript == {"ask", "research"}

StartTranscript(E) ==
    /\ pc = "idle" /\ initialized /\ invocations < E.invocations
    /\ \E li \in {<<"ask", "old">>, <<"research", "new">>} : loop' = li[1] /\ impl' = li[2]
    /\ invocations' = invocations + 1
    /\ iteration' = 1      \* iteration < maxIterations holds for 0; iteration++
    /\ requests' = 1       \* callAI / callResearchAI
    /\ pc' = "await"
    /\ turns' = <<>> /\ pending' = 0 /\ received' = <<>> /\ totalCredits' = 0 /\ sumCredits' = 0
    /\ doneSeen' = FALSE /\ outerDone' = FALSE /\ stop' = "" /\ reported' = -1 /\ warned' = FALSE
    /\ awaiting' = "" /\ phase' = ""
    /\ ev' = Ev("start")
    /\ UNCHANGED <<world, accepted, origin, faults>>

\* The failed request sent again.
TranscriptFailRetries ==
    /\ pc = "await" /\ loop \in Transcript /\ requests < MaxRequests
    /\ requests' = requests + 1
    /\ ev' = Ev("fail")
    /\ UNCHANGED <<world, ctl, sumCredits, doneSeen, accepted, origin, faults, invocations>>

\* The failed request undoing the writes of the invocation from their snapshots.
TranscriptFailRollsBack ==
    /\ pc = "await" /\ loop \in Transcript
    /\ Return("error", -1, FALSE)
    /\ files' = [l \in DOMAIN files |->
                   IF \E n \in DOMAIN origin : origin[n] = l
                   THEN snaps[CHOOSE n \in DOMAIN origin : origin[n] = l] ELSE files[l]]
    /\ ev' = Ev("fail")
    /\ UNCHANGED <<snaps, snapDir, peer, P, now, initialized, loop, impl, awaiting, phase, iteration,
                   turns, totalCredits, outerDone, requests, sumCredits, doneSeen, accepted,
                   origin, faults, invocations>>

\* callAI returns an error: logError and return.
TranscriptFail ==
    /\ pc = "await" /\ loop \in Transcript
    /\ Return("error", -1, FALSE)
    /\ ev' = Ev("fail")
    /\ UNCHANGED <<world, loop, impl, awaiting, phase, iteration, turns, totalCredits,
                   outerDone, requests, sumCredits, doneSeen, accepted, origin, faults,
                   invocations>>

\* callAI returns a response with n actions; E.rounds bounds the rounds in
\* which the remote asks for actions.
TranscriptRespond(E) ==
    /\ pc = "await" /\ loop \in Transcript
    /\ \E n \in 0..E.batch, c \in E.credits, d \in E.dones :
        /\ n > 0 => requests <= E.rounds
        /\ sumCredits' = sumCredits + c
        /\ doneSeen' = (doneSeen \/ d)
        /\ turns' = <<[id |-> 0, output |-> "assistant", error |-> ""]>>
        /\ IF n = 0
           THEN Return("noactions", c, FALSE)
           ELSE /\ pc' = "dispatch" /\ pending' = n /\ received' \in Lists(E.actions, n)
                /\ UNCHANGED <<stop, reported, warned>>
    /\ ev' = Ev("respond")
    /\ UNCHANGED <<world, loop, impl, awaiting, phase, iteration, totalCredits, outerDone,
                   requests, accepted, origin, faults, invocations>>

\* The round given up at the first handler that reports an error.
DispatchActionStopsAtError(E) ==
    /\ pc = "dispatch" /\ loop \in Transcript /\ pending > 0
    /\ \E u \in Inputs :
        LET a == NextAction(received)
            o == IF loop = "research" THEN executeResearchAction(World, a, u, impl)
                 ELSE executeAction(World, a, u, impl)
            e == [Ev("dispatch") EXCEPT !.via = loop, !.type = a.type, !.path = a.path,
                                        !.command = a.command, !.content = a.content,
                                        !.perm = IF loop = "ask" /\ a.type \in ResearchTypes
                                                 THEN "" ELSE PermOf(a.type)]
            rest == IF o.text \in {"Error reading file", "Error writing file",
                                   "Error listing files", "Command failed"}
                    THEN <<>> ELSE Tail(received)
        IN /\ Apply(o, e, a.path, u)
           /\ turns' = Append(turns, [id |-> 0, output |-> o.text, error |-> ""])
           /\ pending' = Len(rest) /\ received' = rest
    /\ UNCHANGED <<now, snapDir, peer, initialized, loop, impl, pc, awaiting, phase, iteration, totalCredits,
                   outerDone, stop, reported, warned, requests, sumCredits, doneSeen,
                   faults, invocations>>

\* result := executeAction(action); append the result turn.
DispatchAction(E) ==
    /\ pc = "dispatch" /\ loop \in Transcript /\ pending > 0
    /\ \E u \in Inputs :
        LET a == NextAction(received)
            o == IF loop = "research" THEN executeResearchAction(World, a, u, impl)
                 ELSE executeAction(World, a, u, impl)
            e == [Ev("dispatch") EXCEPT !.via = loop, !.type = a.type, !.path = a.path,
                                        !.command = a.command, !.content = a.content,
                                        !.perm = IF loop = "ask" /\ a.type \in ResearchTypes
                                                 THEN "" ELSE PermOf(a.type)]
        IN /\ Apply(o, e, a.path, u)
           /\ turns' = Append(turns, [id |-> 0, output |-> o.text, error |-> ""])
    /\ pending' = pending - 1 /\ received' = Tail(received)
    /\ UNCHANGED <<now, snapDir, peer, initialized, loop, impl, pc, awaiting, phase, iteration, totalCredits,
                   outerDone, stop, reported, warned, requests, sumCredits, doneSeen,
                   faults, invocations>>

\* The loop condition off by one.
LoopGuardInclusive(it) == it <= maxIterations

\* `for iteration < maxIterations`
LoopGuard(it) == it < maxIterations

\* The round is over: back to the head of the for loop.
NextIteration ==
    /\ pc = "dispatch" /\ loop \in Transcript /\ pending = 0
    /\ IF LoopGuard(iteration)
       THEN /\ iteration' = iteration + 1
            /\ requests' = requests + 1
            /\ pc' = "await"
            /\ UNCHANGED <<stop, reported, warned, pending, received>>
       ELSE /\ Return("cap", -1, TRUE)
            /\ UNCHANGED <<iteration, requests>>
    /\ ev' = Ev("next")
    /\ UNCHANGED <<world, loop, impl, awaiting, phase, turns, totalCredits, outerDone,
                   sumCredits, doneSeen, accepted, origin, faults, invocations>>

\* ------------------------------------------- tool loops (keke code, 2 variants)
\* "codeRec": handleAIResponseWithTools recurses until a response without tool
\* calls.  "codeIter": the same recursion inside a for loop of "continue" calls.
Tools == {"codeRec", "codeIter"}

StartTools(E) ==
    /\ pc = "idle" /\ initialized /\ invocations < E.invocations
    /\ loop' \in Tools /\ impl' = "new"
    /\ invocations' = invocations + 1
    /\ iteration' = 0
    /\ requests' = 1       \* callDatabaseAI(initialPrompt)
    /\ pc' = "await" /\ awaiting' = "first" /\ phase' = "first"
    /\ turns' = <<>> /\ pending' = 0 /\ received' = <<>> /\ totalCredits' = 0 /\ sumCredits' = 0
    /\ doneSeen' = FALSE /\ outerDone' = FALSE /\ stop' = "" /\ reported' = -1 /\ warned' = FALSE
    /\ ev' = Ev("start")
    /\ UNCHANGED <<world, accepted, origin, faults>>

\* `for iteration < maxIterations && continueLoop`
IterGuard(it, cont) == it < maxIterations /\ cont

\* The iterating loop once handleAIResponseWithTools has returned cont, with
\* done the Done flag of the response the loop holds and total the accumulator.
AfterHandle(cont, done, total) ==
    IF phase = "first"
    THEN IF done \/ ~cont
         THEN /\ Return(IF done THEN "done" ELSE "stopped", total, FALSE)
              /\ UNCHANGED <<iteration, requests, awaiting, phase>>
         ELSE /\ iteration' = iteration + 1
              /\ requests' = requests + 1
              /\ pc' = "await" /\ awaiting' = "continue" /\ phase' = "loop"
              /\ pending' = 0 /\ received' = <<>>
              /\ UNCHANGED <<stop, reported, warned>>
    ELSE IF done \/ ~cont
         THEN /\ Return(IF done THEN "done" ELSE "stopped", total, iteration >= maxIterations)
              /\ UNCHANGED <<iteration, requests, awaiting, phase>>
         ELSE IF IterGuard(iteration, cont)
              THEN /\ iteration' = iteration + 1
                   /\ requests' = requests + 1
                   /\ pc' = "await" /\ awaiting' = "continue"
                   /\ pending' = 0 /\ received' = <<>>
                   /\ UNCHANGED <<stop, reported, warned, phase>>
              ELSE /\ Return("cap", total, iteration >= maxIterations)
                   /\ UNCHANGED <<iteration, requests, awaiting, phase>>

ToolsFail ==
    /\ pc = "await" /\ loop \in Tools
    /\ IF awaiting = "results"
       THEN IF loop = "codeRec"
            THEN /\ Return("error", totalCredits, FALSE)
                 /\ UNCHANGED <<iteration, requests, awaiting, phase>>
            ELSE AfterHandle(FALSE, outerDone, totalCredits)
       ELSE /\ Return("error", -1, FALSE)
            /\ UNCHANGED <<iteration, requests, awaiting, phase>>
    /\ ev' = Ev("fail")
    /\ UNCHANGED <<world, loop, impl, turns, totalCredits, outerDone, sumCredits, doneSeen,
                   accepted, origin, faults, invocations>>

\* A response arrives: n tool calls, or none and a message of class m.
ToolsRespond(E) ==
    /\ pc = "await" /\ loop \in Tools
    /\ \E n \in 0..E.batch, c \in E.credits, d \in E.dones, m \in E.msgs, approval \in {"y", "n"} :
        LET done == IF awaiting = "results" THEN outerDone ELSE d
            cont == handleAIResponse(m, approval)
        IN /\ (n > 0 \/ (loop = "codeIter" /\ cont /\ ~done)) => requests <= E.rounds
           /\ totalCredits' = totalCredits + c
           /\ sumCredits' = sumCredits + c
           /\ doneSeen' = (doneSeen \/ d)
           /\ outerDone' = done
           /\ IF n > 0
              THEN /\ pc' = "dispatch" /\ pending' = n /\ turns' = <<>>
                   /\ received' \in {WithIds(l, requests) : l \in Lists(E.tools, n)}
                   /\ UNCHANGED <<stop, reported, warned, iteration, requests, awaiting, phase>>
              ELSE /\ turns' = turns
                   /\ IF loop = "codeRec"
                      THEN /\ Return("noactions", totalCredits + c, FALSE)
                           /\ UNCHANGED <<iteration, requests, awaiting, phase>>
                      ELSE AfterHandle(cont, done, totalCredits + c)
    /\ ev' = Ev("respond")
    /\ UNCHANGED <<world, loop, impl, accepted, origin, faults, invocations>>

\* A response of the iterating loop without tool calls whose message carries a
\* fenced code block: extractAndWriteCodeBlocks writes it, the loop goes on.
ToolsRespondCode(E) ==
    /\ pc = "await" /\ loop = "codeIter"
    /\ \E c \in E.credits, d \in E.dones, p \in E.blocks, content \in Contents \ {""}, u \in Inputs :
        LET done == IF awaiting = "results" THEN outerDone ELSE d
            o == writeFile(World, p, content, u)
            e == [Ev("dispatch") EXCEPT !.via = "codeblock", !.type = "write_file",
                                        !.path = p, !.content = content, !.perm = "write"]
        IN /\ ~done => requests <= E.rounds
           /\ totalCredits' = totalCredits + c
           /\ sumCredits' = sumCredits + c
           /\ doneSeen' = (doneSeen \/ d)
           /\ outerDone' = done
           /\ Apply(o, e, p, u)
           /\ AfterHandle(handleAIResponse("code", ""), done, totalCredits + c)
    /\ UNCHANGED <<now, snapDir, peer, initialized, loop, impl, turns, faults, invocations>>

\* result := executeToolCall(toolCall); results = append(results, result)
DispatchTool(E) ==
    /\ pc = "dispatch" /\ loop \in Tools /\ pending > 0
    /\ \E u \in Inputs :
        LET t == NextAction(received)
            toolCall == [id |-> t.id, name |-> t.name, args |-> t.args]
            r == executeToolCall(World, toolCall, u)
            path == CASE t.name = "write_file" -> parseWriteFileArgs(t.args).path
                      [] t.name = "read_file" -> parseReadFileArgs(t.args)
                      [] t.name = "list_files" -> parseListFilesArgs(t.args)
                      [] OTHER -> Empty
            e == [Ev("dispatch") EXCEPT !.via = "tool", !.type = t.name, !.path = path,
                                        !.args = <<t.args>>,
                                        !.command = IF t.name = "execute_command"
                                                    THEN parseCommandArgs(t.args) ELSE Empty,
                                        !.content = IF t.name = "write_file"
                                                    THEN parseWriteFileArgs(t.args).content ELSE "",
                                        !.perm = getPermissionType(t.name), !.fail = r.error]
        IN /\ Apply(r.o, e, path, u)
           /\ turns' = Append(turns, [id |-> r.id, output |-> r.output, error |-> r.error])
    /\ pending' = pending - 1 /\ received' = Tail(received)
    /\ UNCHANGED <<now, snapDir, peer, initialized, loop, impl, pc, awaiting, phase, iteration, totalCredits,
                   outerDone, stop, reported, warned, requests, sumCredits, doneSeen,
                   faults, invocations>>

\* sendToolResultsToDatabaseAI(results, ..)
SendToolResults ==
    /\ pc = "dispatch" /\ loop \in Tools /\ pending = 0
    /\ requests' = requests + 1
    /\ pc' = "await" /\ awaiting' = "results"
    /\ ev' = Ev("send")
    /\ UNCHANGED <<world, loop, impl, phase, iteration, pending, received, turns, totalCredits,
                   outerDone, stop, reported, warned, sumCredits, doneSeen, accepted, origin, faults,
                   invocations>>

\* The process exits: the conversation state is discarded.
Exit ==
    /\ pc = "returned"
    /\ pc' = "idle"
    /\ loop' = "none" /\ impl' = "new" /\ awaiting' = "" /\ phase' = ""
    /\ iteration' = 0 /\ pending' = 0 /\ received' = <<>> /\ turns' = <<>> /\ totalCredits' = 0
    /\ outerDone' = FALSE /\ stop' = "" /\ reported' = -1 /\ warned' = FALSE
    /\ requests' = 0 /\ sumCredits' = 0 /\ doneSeen' = FALSE
    /\ ev' = Ev("exit")
    /\ UNCHANGED <<world, accepted, origin, faults, invocations>>

\* ---------------------------------------------------------- keke rollback
\* The parse that takes the part before the first dot for the original file.
ParseSnapshotFirstPart(name) ==
    IF Len(name) < 2 \/ name[Len(name)] # "snap" \/ Len(name) < 3 THEN <<>>
    ELSE <<[OriginalFile |-> SubSeq(name, 1, 1),
            Timestamp |-> name[Len(name) - 1],
            SnapshotFile |-> name]>>

\* strings.HasSuffix(name, ".snap"), strings.Split(name, "."), len(parts) < 3
ParseSnapshot(name) ==
    IF Len(name) < 2 \/ name[Len(name)] # "snap" \/ Len(name) < 3 THEN <<>>
    ELSE <<[OriginalFile |-> SubSeq(name, 1, Len(name) - 2),
            Timestamp |-> name[Len(name) - 1],
            SnapshotFile |-> name]>>

SnapshotInfos(dir) == {ParseSnapshot(name)[1] : name \in {x \in DOMAIN dir : ParseSnapshot(x) # <<>>}}

\* The groups sorted oldest first.
RECURSIVE SortAsc(_)
SortAsc(S) ==
    IF S = {} THEN <<>>
    ELSE LET m == CHOOSE x \in S : \A y \in S : StampIndex(x.Timestamp) <= StampIndex(y.Timestamp)
         IN <<m>> \o SortAsc(S \ {m})

\* sort.Slice(snaps, Timestamp descending)
RECURSIVE SortDesc(_)
SortDesc(S) ==
    IF S = {} THEN <<>>
    ELSE LET m == CHOOSE x \in S : \A y \in S : StampIndex(x.Timestamp) >= StampIndex(y.Timestamp)
         IN <<m>> \o SortDesc(S \ {m})

RECURSIVE ConcatGroups(_, _, _)
ConcatGroups(order, i, infos) ==
    IF i > Len(order) THEN <<>>
    ELSE SortDesc({x \in infos : x.OriginalFile = order[i]}) \o ConcatGroups(order, i + 1, infos)

\* The orders in which ranging over the map can visit the groups.
GroupOrders(G) == {f \in [1..Cardinality(G) -> G] : \A i, j \in DOMAIN f : i # j => f[i] # f[j]}

\* allSnapshots built from every group, whatever the filter.
AllSnapshotsUnfiltered(dir, args, order) ==
    ConcatGroups(order, 1, SnapshotInfos(dir))

\* allSnapshots for a target-file filter (<<>> is no filter) and a map order
AllSnapshots(dir, args, order) ==
    LET infos == SnapshotInfos(dir)
    IN ConcatGroups(order, 1, IF args = <<>> THEN infos ELSE {x \in infos : x.OriginalFile = args[1]})

Selections == {"c", "", "1", "2", "0", "-1", "x", "1x"}

\* fmt.Sscanf(response, "%d", &index): the number the response begins with,
\* whatever follows it; index keeps its zero when there is none.
ScanInt(r) == CASE r \in {"1", "1x"} -> 1 [] r = "2" -> 2 [] r = "-1" -> -1 [] OTHER -> 0

handleRollback ==
    /\ pc = "idle" /\ initialized
    /\ \E args \in {<<>>, <<NameA>>, <<NameSub>>}, response \in Selections, confirm \in Answers :
        LET infos == SnapshotInfos(snaps)
            groups == {x.OriginalFile : x \in infos}
        IN \E order \in GroupOrders(groups) :
            LET allSnapshots == AllSnapshots(snaps, args, order)
                index == ScanInt(response)
                e == [Ev("rollback") EXCEPT !.args = args]
            IN IF DOMAIN snaps = {}
               THEN /\ ev' = [e EXCEPT !.text = "No snapshots available"]
                    /\ files' = files
               ELSE IF args # <<>> /\ args[1] \notin {x.OriginalFile : x \in infos}
               THEN /\ ev' = [e EXCEPT !.text = "No snapshots found for"]
                    /\ files' = files
               ELSE IF response = "c" \/ response = ""
               THEN /\ ev' = [e EXCEPT !.text = "Cancelled", !.prompts = 1, !.ans = <<response>>,
                                          !.data = <<allSnapshots>>]
                    /\ files' = files
               ELSE IF index < 1 \/ index > Len(allSnapshots)
               THEN /\ ev' = [e EXCEPT !.text = "Invalid selection", !.prompts = 1,
                                          !.ans = <<response>>, !.data = <<allSnapshots>>]
                    /\ files' = files
               ELSE IF ~IsYes(confirm)
               THEN /\ ev' = [e EXCEPT !.text = "Cancelled", !.prompts = 2,
                                          !.ans = <<response, confirm>>,
                                          !.data = <<allSnapshots>>]
                    /\ files' = files
               ELSE LET snapshot == allSnapshots[index]
                    IN /\ files' = (Clean(<<snapshot.OriginalFile>>) :> snaps[snapshot.SnapshotFile]) @@ files
                       /\ ev' = [e EXCEPT !.text = "Restored", !.prompts = 2,
                                          !.ans = <<response, confirm>>,
                                          !.data = <<allSnapshots>>,
                                          !.path = <<snapshot.OriginalFile>>,
                                          !.eff = [NoEffect EXCEPT !.snap = <<snapshot.SnapshotFile>>]]
    /\ UNCHANGED <<snaps, snapDir, peer, P, now, initialized, ctl, requests, sumCredits, doneSeen, accepted,
                   origin, faults, invocations>>

\* ============================================================ specifications
\* An environment E bounds what happens around the program: the seconds that
\* pass, the external events on the permission file, the invocations, the
\* rounds in which the remote asks for actions, the size of a batch, and what
\* the remote may send.
Env(time, nfaults, ninv, rounds, batch, credits, dones, actions, tools, msgs, blocks) ==
    [time |-> time, faults |-> nfaults, invocations |-> ninv, rounds |-> rounds,
     batch |-> batch, credits |-> credits, dones |-> dones, actions |-> actions,
     tools |-> tools, msgs |-> msgs, blocks |-> blocks]

\* One invocation of either transcript loop.
TranscriptStep(E) ==
    \/ StartTranscript(E)
    \/ TranscriptFail
    \/ TranscriptRespond(E)
    \/ DispatchAction(E)
    \/ NextIteration

\* One invocation of either tool loop.
ToolsStep(E) ==
    \/ StartTools(E)
    \/ ToolsFail
    \/ ToolsRespond(E)
    \/ ToolsRespondCode(E)
    \/ DispatchTool(E)
    \/ SendToolResults

\* Spec: short conversations of all four loops over every kind of action; the
\* credit costs and the completion flag, which no handler reads, are left to
\* SpecReport.
CoreActions ==
    {Action("read_file", PathA, "", Empty), Action("list_files", Empty, "", Empty),
     Action("execute_command", Empty, "", CmdLs), Action("write_file", PathA, "v1", Empty),
     Action("visualize", PathA, "", Empty), Action("noop", Empty, "", Empty)}

CoreTools ==
    {ToolCall("execute_command", Obj([NoFields EXCEPT !.command = CmdLs])),
     ToolCall("write_file", Obj([NoFields EXCEPT !.path = PathA, !.content = "v1"])),
     ToolCall("read_file", Obj([NoFields EXCEPT !.path = PathA])),
     ToolCall("list_files", Obj(NoFields)), ToolCall("noop", Obj(NoFields))}

CoreEnv ==
    Env(0, 0, 1, MaxRounds, MaxBatch, {1}, {FALSE}, CoreActions, CoreTools, MsgKinds, {PathA})

Next ==
    \/ handleInit
    \/ TranscriptStep(CoreEnv)
    \/ ToolsStep(CoreEnv)
    \/ Exit

Spec == Init /\ [][Next]_vars

\* SpecReport: short conversations with any credit costs and completion flags,
\* over actions that leave the files alone.
ReportEnv ==
    Env(0, 0, 1, MaxRounds, 1, Credits, BOOLEAN, QuietActions, QuietTools, MsgKinds, {})

NextReport ==
    \/ handleInit
    \/ TranscriptStep(ReportEnv)
    \/ StartTools(ReportEnv)
    \/ ToolsFail
    \/ ToolsRespond(ReportEnv)
    \/ DispatchTool(ReportEnv)
    \/ SendToolResults
    \/ Exit

SpecReport == Init /\ [][NextReport]_vars

\* SpecLoop: one long conversation in which the remote may go on asking for
\* (quiet) actions for MaxRequests rounds, beyond maxIterations.
LoopEnv ==
    Env(0, 0, 1, MaxRequests, 1, {1}, BOOLEAN, QuietActions, QuietTools, {"plain", "question"}, {})

NextLoop ==
    \/ handleInit
    \/ TranscriptStep(LoopEnv)
    \/ StartTools(LoopEnv)
    \/ ToolsFail
    \/ ToolsRespond(LoopEnv)
    \/ DispatchTool(LoopEnv)
    \/ SendToolResults
    \/ Exit

SpecLoop == Init /\ [][NextLoop]_vars

\* SpecGate: several short invocations around external events on the permission
\* file (it becomes unreadable or undecodable for a while, or is removed).  One
\* action per kind; the one of kind write is the research action, which leaves
\* the files alone.
GateActions ==
    {Action("list_files", Empty, "", Empty), Action("visualize", Empty, "", Empty),
     Action("execute_command", Empty, "", CmdLs)}

GateTools ==
    {ToolCall("list_files", Obj(NoFields)),
     ToolCall("execute_command", Obj([NoFields EXCEPT !.command = CmdLs]))}

GateEnv ==
    Env(0, MaxFaults, MaxInvocations, 1, MaxBatch, {1}, {FALSE}, GateActions, GateTools, {"question"}, {})

NextGate ==
    \/ handleInit
    \/ PermFileFault(GateEnv)
    \/ PermFileRecover
    \/ PermFileRemove(GateEnv)
    \/ TranscriptStep(GateEnv)
    \/ StartTools(GateEnv)
    \/ ToolsFail
    \/ ToolsRespond(GateEnv)
    \/ DispatchTool(GateEnv)
    \/ SendToolResults
    \/ Exit

SpecGate == Init /\ [][NextGate]_vars

\* SpecStore: writes, seconds passing between them, and rollbacks.
StoreActions == {Action("write_file", p, "v1", Empty) : p \in {PathA, PathSubA}}

StoreEnv ==
    Env(MaxTime, 0, 1, MaxRounds, MaxBatch, {1}, {FALSE}, StoreActions, {}, {}, {})

NextStore ==
    \/ handleInit
    \/ Tick(StoreEnv)
    \/ TranscriptStep(StoreEnv)
    \/ Exit
    \/ handleRollback

SpecStore == Init /\ [][NextStore]_vars

\* SpecEscape: writes whose target lies outside the project directory, from
\* an action, from a tool call and from a code block.
EscapeActions == {Action("write_file", p, "v1", Empty) : p \in {PathUpA, PathSneakA, PathSubA}}

EscapeTools ==
    {ToolCall("write_file", Obj([NoFields EXCEPT !.path = p, !.content = "v1"])) :
        p \in {PathUpA, PathSneakA, PathSubA}}

EscapeEnv ==
    Env(0, 0, 1, 1, MaxBatch, {1}, {FALSE}, EscapeActions, EscapeTools, {"question"},
        {PathUpA, PathSubA})

NextEscape ==
    \/ handleInit
    \/ TranscriptStep(EscapeEnv)
    \/ ToolsStep(EscapeEnv)
    \/ Exit

SpecEscape == Init /\ [][NextEscape]_vars

\* SpecList: listings of the project directory and of directories in it.
ListActions ==
    {Action("list_files", p, "", Empty) : p \in {Empty, <<Dot>>, <<NameSub>>, <<NameGithub>>}}

ListTools ==
    {ToolCall("list_files", a) : a \in {Obj(NoFields), Str(<<NameSub>>), Str(<<NameGithub>>)}}

ListEnv == Env(0, 0, 1, 1, MaxBatch, {1}, {FALSE}, ListActions, ListTools, {"question"}, {})

NextList ==
    \/ handleInit
    \/ TranscriptStep(ListEnv)
    \/ StartTools(ListEnv)
    \/ ToolsFail
    \/ ToolsRespond(ListEnv)
    \/ DispatchTool(ListEnv)
    \/ SendToolResults
    \/ Exit

SpecList == Init /\ [][NextList]_vars

\* SpecArgs: one tool call per invocation, its arguments in any encoding.
ArgsEnv == Env(0, 0, 1, 1, 1, {1}, {FALSE}, {}, FullTools, {"question"}, {})

NextArgs ==
    \/ handleInit
    \/ StartTools(ArgsEnv)
    \/ ToolsFail
    \/ ToolsRespond(ArgsEnv)
    \/ DispatchTool(ArgsEnv)
    \/ SendToolResults
    \/ Exit

SpecArgs == Init /\ [][NextArgs]_vars

\* SpecResearch: two rounds of one action each, of every type the two
\* dispatchers know and of one that neither knows.
ResearchEnv ==
    Env(0, 0, 1, 2, 1, {1}, {FALSE},
        {Action("read_file", PathA, "", Empty), Action("list_files", Empty, "", Empty),
         Action("execute_command", Empty, "", CmdLs), Action("write_file", PathA, "v1", Empty),
         Action("noop", Empty, "", Empty)}
        \cup {Action(t, PathA, "", Empty) : t \in ResearchTypes},
        {}, {}, {})

NextResearch ==
    \/ handleInit
    \/ TranscriptStep(ResearchEnv)
    \/ Exit

SpecResearch == Init /\ [][NextResearch]_vars

\* SpecSnapFail: one write to a file, from an action, a tool call or a code
\* block, after the snapshot directory stopped taking new files or after the
\* file was removed.
SnapFailEnv ==
    Env(0, 1, 1, 1, 1, {1}, {FALSE}, {Action("write_file", PathA, "v1", Empty)},
        {ToolCall("write_file", Obj([NoFields EXCEPT !.path = PathA, !.content = "v1"]))},
        {"question"}, {PathA})

NextSnapFail ==
    \/ handleInit
    \/ SnapDirFault(SnapFailEnv)
    \/ FileRemove(SnapFailEnv)
    \/ TranscriptStep(SnapFailEnv)
    \/ ToolsStep(SnapFailEnv)
    \/ Exit

SpecSnapFail == Init /\ [][NextSnapFail]_vars

\* SpecFail: rounds of actions whose handlers fail: a file and a directory
\* that are not there, a target outside the project, a command that may fail.
FailEnv ==
    Env(0, 0, 1, 1, MaxBatch, {1}, {FALSE},
        {Action("read_file", <<NameSub, <<"none">>>>, "", Empty),
         Action("list_files", <<<<"none">>>>, "", Empty),
         Action("write_file", PathUpA, "v1", Empty),
         Action("execute_command", Empty, "", CmdLs)},
        {}, {}, {})

NextFail ==
    \/ handleInit
    \/ TranscriptStep(FailEnv)
    \/ Exit

SpecFail == Init /\ [][NextFail]_vars

\* SpecNames: up to three writes to two files with different names, a second
\* passing, a stray file in the snapshot directory, and rollbacks.
NameEnv ==
    Env(1, 1, 1, 3, 1, {1}, {FALSE},
        {Action("write_file", p, "v1", Empty) : p \in {PathA, <<<<"a", "tar", "gz">>>>}},
        {}, {}, {})

NextNames ==
    \/ handleInit
    \/ Tick(NameEnv)
    \/ StrayEntry(NameEnv)
    \/ TranscriptStep(NameEnv)
    \/ Exit
    \/ handleRollback

SpecNames == Init /\ [][NextNames]_vars

\* SpecDots: one write to a file whose name has no dot (.github/x), one dot
\* or several, at either second, a stray file in the snapshot directory, and
\* rollbacks.
DotsEnv ==
    Env(1, 1, 1, 1, 1, {1}, {FALSE},
        {Action("write_file", p, "v1", Empty) :
            p \in {PathA, <<NameGithub, <<"x">>>>, <<<<"a", "tar", "gz">>>>}},
        {}, {}, {})

NextDots ==
    \/ handleInit
    \/ Tick(DotsEnv)
    \/ StrayEntry(DotsEnv)
    \/ TranscriptStep(DotsEnv)
    \/ Exit
    \/ handleRollback

SpecDots == Init /\ [][NextDots]_vars

\* SpecRace: one invocation that writes a file while a second invocation has
\* a permission request accepted.
NextRace ==
    \/ handleInit
    \/ PeerRead
    \/ PeerWrite
    \/ TranscriptStep(SnapFailEnv)
    \/ Exit

SpecRace == Init /\ [][NextRace]_vars

\* ================================================================== claims
GenericTypes == {"read_file", "list_files", "write_file", "execute_command"}

\* The step just taken dispatched an action whose last prompt the user declined.
Declined(e) ==
    /\ e.step = "dispatch"
    /\ ~e.had
    /\ e.prompts > 0
    /\ ~IsYes(e.ans[e.prompts])

\* C1: a dispatch of read_file, list_files, write_file or execute_command,
\* through executeAction or executeToolCall, whose kind is not granted and whose
\* prompt the user does not answer affirmatively performs no effect (no read, no
\* walk, no snapshot, no write, no spawn, no change of the permission file) and
\* returns the permission-denied result.
C1_DeniedNoEffect ==
    [][(Declined(ev') /\ ev'.type \in GenericTypes /\ ev'.via \in {"ask", "research", "tool"})
          => /\ files' = files /\ snaps' = snaps /\ P' = P
             /\ ev'.eff = NoEffect
             /\ (ev'.text = Denied \/ ev'.fail = Denied)]_vars

\* C1 witness: a write_file tool call was declined and nothing was snapshotted.
C1_Witness ==
    /\ Declined(ev) /\ ev.type = "write_file" /\ ev.via = "tool"
    /\ ev.fail = Denied /\ ev.eff = NoEffect /\ snaps = <<>>

\* C2: every permitted write_file dispatch whose target exists adds exactly one
\* new snapshot to the snapshot directory, holding the content the target had
\* just before the write, also for two writes in the same second.
C2_OneNewSnapshot ==
    [][(ev'.step = "dispatch" /\ ev'.type = "write_file" /\ ev'.text # Denied
          /\ Exists(files, ev'.path))
          => \E n \in DOMAIN snaps' \ DOMAIN snaps :
                /\ DOMAIN snaps' = DOMAIN snaps \cup {n}
                /\ snaps'[n] = files[Clean(ev'.path)]]_vars

\* C3: a confirmed restore makes the file the snapshot was taken from (origin
\* holds the location every snapshot was taken from) identical to the snapshot
\* and creates or modifies no other file.
C3_RestoreFrame ==
    [][(ev'.step = "rollback" /\ ev'.text = "Restored")
          => LET n == ev'.eff.snap[1]
             IN /\ files'[origin[n]] = snaps[n]
                /\ \A l \in DOMAIN files' :
                      l # origin[n] => (l \in DOMAIN files /\ files'[l] = files[l])]_vars

C5_GrantsMonotonic ==
    [][ev'.step \notin {"fault", "recover", "remove"}
          => \A k \in Kinds : P.grants[k] => P'.grants[k]]_vars

\* C6: an invocation of conversationLoop or researchLoop never sends more than
\* 20 requests, and when the 20th round has dispatched its actions the loop
\* returns (with the max-iterations warning) without another request.
C6_TranscriptCap ==
    [][/\ loop' \in Transcript => requests' <= maxIterations
       /\ (loop \in Transcript /\ requests = maxIterations /\ pc = "dispatch" /\ pending = 0)
             => (pc' = "returned" /\ stop' = "cap" /\ warned' /\ requests' = requests)]_vars

\* C6 witness: the loop has returned on the cap after 20 requests.
C6_Witness ==
    loop \in Transcript /\ pc = "returned" /\ stop = "cap" /\ requests = maxIterations

\* C7: an invocation of a tool loop never sends more requests (initial call,
\* tool-result submissions and "continue" calls together) than the iteration
\* cap; stated here with one request to spare for the initial call, which the
\* iterating loop sends before it starts counting.
C7_ToolRequestsCapped ==
    loop \in Tools => requests <= maxIterations + 1

\* C8: once a response with done=true has been received, the invocation sends no
\* further request, whether or not that response carries actions or tool calls.
C8_DoneStops ==
    [][(doneSeen /\ pc \in {"await", "dispatch"}) => requests' = requests]_vars

\* C9: when the loop stops on a round without actions, the total it reports is
\* the sum of the credit costs of all responses of the invocation.
C9_ReportsSum ==
    (pc = "returned" /\ stop = "noactions") => reported = sumCredits

\* The denial step of a loop: the result is appended and the round goes on.
RoundGoesOn ==
    /\ turns' = Append(turns, [id |-> turns'[Len(turns')].id, output |-> ev'.text, error |-> ev'.fail])
    /\ pc = "dispatch" /\ pc' = "dispatch"
    /\ pending' = pending - 1
    /\ loop' = loop /\ stop' = stop

\* C10 as stated: whenever the user declines the prompt of an action of a round,
\* the result is "Permission denied by user", it is appended to the transcript
\* (or is the ToolResult of the call), and the round and the loop go on.
C10_Original ==
    [][(Declined(ev') /\ ev'.via \in {"ask", "research", "tool"})
          => (ev'.text = Denied \/ ev'.fail = Denied) /\ RoundGoesOn]_vars

\* C10 amended: the same, with the text "Permission denied by user" for the four
\* generic actions and for every tool call, and the text "Permission denied" for
\* the five research actions of researchLoop.
C10_DeclineGoesOn ==
    [][(Declined(ev') /\ ev'.via \in {"ask", "research", "tool"})
          => /\ IF ev'.via = "tool" \/ ev'.type \in GenericTypes
                THEN ev'.text = Denied \/ ev'.fail = Denied
                ELSE ev'.via = "research" /\ ev'.type \in ResearchTypes /\ ev'.text = DeniedResearch
             /\ RoundGoesOn]_vars

\* C10 witness: the first action of a round of two was declined, its denial is
\* the last turn, and the second action is still to be dispatched.
C10_Witness ==
    /\ Declined(ev) /\ ev.via = "ask" /\ ev.type = "list_files"
    /\ pc = "dispatch" /\ pending = 1
    /\ turns[Len(turns)].output = Denied

\* C11: a failed request ends the invocation at once: the failing step itself
\* sends no request, dispatches nothing and leaves the project as it is, and
\* once the loop has returned nothing follows but the exit of the process.
C11_FailureReturns ==
    [][/\ ev'.step = "fail" => /\ pc' = "returned" /\ requests' = requests
                                /\ received' = <<>> /\ pending' = 0
                                /\ world' = world /\ turns' = turns
       /\ pc = "returned" => pc' = "idle" /\ ev'.step = "exit" /\ world' = world]_vars

\* C11 witness: the third request of an ask conversation failed, after two
\* rounds of actions, and the loop has returned.
C11_Witness ==
    /\ ev.step = "fail" /\ loop = "ask" /\ requests = 3
    /\ pc = "returned" /\ stop = "error"

\* C12: the actions of a round are dispatched in the order received, one per
\* step; each result is appended to the turns in that order, after the results
\* of the actions before it; and a request is sent from a round only when no
\* action of the round is left.
C12_InOrder ==
    [][/\ (ev'.step = "dispatch" /\ ev'.via \in {"ask", "research", "tool"})
            => /\ pc = "dispatch" /\ received # <<>>
               /\ ev'.type = (IF ev'.via = "tool" THEN Head(received).name ELSE Head(received).type)
               /\ received' = Tail(received)
               /\ Len(turns') = Len(turns) + 1
               /\ SubSeq(turns', 1, Len(turns)) = turns
               /\ turns'[Len(turns')].output = ev'.text
               /\ requests' = requests
       /\ (pc = "dispatch" /\ requests' # requests)
            => received = <<>> /\ pending = 0 /\ turns' = turns /\ requests' = requests + 1]_vars

\* C12 witness: of a round of two different actions the first has been
\* dispatched and its result appended; the second is still to come.
C12_Witness ==
    /\ loop = "ask" /\ pc = "dispatch" /\ ev.step = "dispatch" /\ ev.type = "read_file"
    /\ Len(received) = 1 /\ received[1].type = "write_file"
    /\ Len(turns) = 2 /\ turns[2].output = ev.text

\* A tool call has been dispatched: ev.args holds its payload, ev.command,
\* ev.path and ev.content what the normalizer of its schema made of it.
ToolDispatched == ev.step = "dispatch" /\ ev.via = "tool" /\ ev.args # <<>>

SingleField == {"execute_command", "read_file", "list_files"}

PrimaryField(type) == IF type = "execute_command" THEN "command" ELSE "path"

Normalized(e) == IF e.type = "execute_command" THEN e.command ELSE e.path

\* The text v read as JSON is an object with a non-empty field of that name.
SelfDescribing(field, v) ==
    LET a == UnmarshalStruct(Decode(v)) IN a.ok /\ a[field] # Empty

NoCommand ==
    {Obj(NoFields), Obj([NoFields EXCEPT !.command = Empty]), Str(Empty), Null, Num}

\* C14: an execute_command tool call whose payload carries no command in any
\* encoding ends with a non-empty error and spawns no process.
C14_NoCommandIsError ==
    (ToolDispatched /\ ev.type = "execute_command" /\ ev.args[1] \in NoCommand)
        => ev.fail # "" /\ ~ev.eff.spawned

\* Write payloads from which no non-empty path can be extracted.
NoPath ==
    LET objs == {o \in WriteObjects : Field(o.f.path) = Empty}
    IN objs \cup {StrJSON(o) : o \in objs} \cup {Str(PathA), Null, Num}

\* Write payloads with a path and an empty content string.
EmptyContent ==
    LET o == Obj([NoFields EXCEPT !.path = PathA, !.content = ""]) IN {o, StrJSON(o)}

\* C15: a write_file tool call without an extractable non-empty path ends with
\* a non-empty error, takes no snapshot and writes no file; one with a path and
\* an empty content is valid: unless the user declines, it writes an empty file.
C15_WriteNeedsPath ==
    [][(ev'.step = "dispatch" /\ ev'.via = "tool" /\ ev'.type = "write_file")
          => /\ ev'.args[1] \in NoPath
                   => ev'.fail # "" /\ files' = files /\ snaps' = snaps /\ ev'.eff.snap = <<>>
             /\ (ev'.args[1] \in EmptyContent /\ ev'.fail # Denied)
                   => /\ ev'.fail = "" /\ ev'.text = "Successfully wrote"
                      /\ files'[PathA] = ""]_vars

\* C15 witness: a double-encoded write of the empty content to a.txt went
\* through and the file is empty.
C15_Witness ==
    /\ ToolDispatched /\ ev.type = "write_file" /\ ev.fail = ""
    /\ ev.args[1] = StrJSON(Obj([NoFields EXCEPT !.path = PathA, !.content = ""]))
    /\ files[PathA] = ""

\* The files below dir none of whose path segments is an excluded name.
NoExcludedSegment(dir) ==
    {l \in Below(files, dir) :
        \A i \in 1..Len(l) : l[i] \notin {<<"", "keke">>, <<"", "git">>, <<"node_modules">>}}

\* C16: list_files returns exactly the files below the directory no segment
\* of whose path is .keke, .git or node_modules; .github/x and .gitignore are
\* among them.
C16_ListsBySegment ==
    (ev.step = "dispatch" /\ ev.type = "list_files" /\ ev.eff.walked)
        => ev.data = <<NoExcludedSegment(IF ev.path = Empty THEN <<Dot>> ELSE ev.path)>>

\* C17: a write_file dispatch (action, tool call or code block) whose cleaned
\* target begins with ".." does not succeed and leaves every file outside the
\* project directory as it was.
C17_NoWriteOutside ==
    [][(/\ ev'.step = "dispatch" /\ ev'.type = "write_file"
        /\ ev'.path # Empty /\ HasDotDotPrefix(Clean(ev'.path)))
          => /\ ev'.text \notin {"Successfully wrote", "written"}
             /\ \A l \in DOMAIN files : HasDotDotPrefix(l) => files'[l] = files[l]]_vars

\* C18: under any sequence of writes and restores a snapshot file that exists
\* is never overwritten, changed or deleted: the (name, content) pairs of the
\* snapshot directory only grow.
C18_SnapshotsOnlyGrow ==
    [][\A n \in DOMAIN snaps : n \in DOMAIN snaps' /\ snaps'[n] = snaps[n]]_vars

\* C19: rollback overwrites a file only after the user has selected a listed
\* snapshot and answered the confirmation with y or yes in any case; with c or
\* an empty line at the selection, or any other answer at the confirmation, it
\* modifies no file.
C19_RestoreNeedsConfirmation ==
    [][ev'.step = "rollback"
          => /\ (files' # files \/ ev'.text = "Restored")
                   => /\ Len(ev'.ans) = 2 /\ ScanInt(ev'.ans[1]) >= 1
                      /\ ev'.eff.snap # <<>> /\ ev'.eff.snap[1] \in DOMAIN snaps
                      /\ ToLower(ev'.ans[2]) \in {"y", "yes"}
             /\ (\/ ev'.ans # <<>> /\ ev'.ans[1] \in {"c", ""}
                 \/ Len(ev'.ans) = 2 /\ ToLower(ev'.ans[2]) \notin {"y", "yes"})
                   => files' = files /\ ev'.text = "Cancelled"]_vars

\* C19 witness: the first listed snapshot was selected, the confirmation was
\* answered YES, and a.txt holds its first content again.
C19_Witness ==
    /\ ev.step = "rollback" /\ ev.text = "Restored" /\ ev.ans = <<"1", "YES">>
    /\ ev.path = PathA /\ files[PathA] = "v0"

\* C20: a loop of any variant that stops at the iteration cap has logged the
\* warning and has reported the credit cost accumulated over all its rounds.
C20_CapReportsTotal ==
    (pc = "returned" /\ stop = "cap") => warned /\ reported = sumCredits

\* The result of the step is a permission denial.
DenialResult(e) == e.text \in {Denied, DeniedResearch} \/ e.fail = Denied

\* C21: requestPermission returns true only for the answers y and yes in any
\* case: a dispatch that prompted goes past its last prompt exactly when that
\* answer is one of them, a further prompt follows only an accepted one, and
\* when no answer was one of them the permission file is left as it was.
C21_RefusalPersistsNothing ==
    [][(ev'.step = "dispatch" /\ ev'.prompts >= 1)
          => LET yes(i) == ToLower(ev'.ans[i]) \in {"y", "yes"}
                 n == ev'.prompts
             IN /\ \A i \in 1..(n - 1) : yes(i)
                /\ yes(n) <=> ~DenialResult(ev')
                /\ (\A i \in 1..n : ~yes(i)) => P' = P]_vars

\* C21 witness: the user answered the prompt of a list_files action with an
\* empty line while the permission file was missing; it is still missing.
C21_Witness ==
    /\ ev.step = "dispatch" /\ ev.type = "list_files" /\ ev.prompts = 1 /\ ev.ans = <<"">>
    /\ ev.text = Denied /\ P.status = "missing"

\* C22: after an accepted request of kind k the persisted set is the set
\* persisted before with only the grant k set to true; the other two grants
\* keep their values.
C22_OnlyThatGrant ==
    [][(/\ ev'.step = "dispatch" /\ ev'.prompts >= 1 /\ ev'.perm \in Kinds
        /\ \E i \in 1..ev'.prompts : ToLower(ev'.ans[i]) \in {"y", "yes"})
          => P'.grants = [P.grants EXCEPT ![ev'.perm] = TRUE]]_vars

\* C23: checkPermission is a pure read (a dispatch whose check succeeds asks
\* nothing and leaves the permission file alone); it answers false for every
\* kind while the file is missing or cannot be read, false for a kind name
\* other than read, write and execute, and the persisted boolean otherwise.
C23_CheckFailsClosed ==
    [][ev'.step = "dispatch"
          => /\ ev'.had = (IF P.status = "ok" /\ ev'.perm \in Kinds
                           THEN P.grants[ev'.perm] ELSE FALSE)
             /\ (ev'.had /\ ev'.via # "tool") => ev'.prompts = 0 /\ P' = P
             /\ ev'.prompts = 0 => P' = P]_vars

\* C23 witness: the read grant is on disk but the file cannot be read; the
\* check answered false, the user was asked and declined.
C23_Witness ==
    /\ ev.step = "dispatch" /\ ev.perm = "read" /\ ~ev.had /\ ev.prompts = 1
    /\ P.status = "unreadable" /\ P.grants.read /\ DenialResult(ev)

\* C24: executeToolCalls builds one ToolResult per ToolCall, in the order of
\* the calls, each with the id of its call, whatever the outcome of the call;
\* the results are sent only when the batch is complete.
C24_OneResultPerCall ==
    [][/\ (ev'.step = "dispatch" /\ ev'.via = "tool")
            => /\ received # <<>>
               /\ Len(turns') = Len(turns) + 1 /\ SubSeq(turns', 1, Len(turns)) = turns
               /\ turns'[Len(turns')].id = Head(received).id
               /\ received' = Tail(received)
       /\ (loop' \in Tools /\ pc' = "dispatch")
            => /\ \A j \in 1..Len(turns') : turns'[j].id = <<requests', j>>
               /\ \A j \in 1..Len(received') : received'[j].id = <<requests', Len(turns') + j>>
       /\ (loop \in Tools /\ pc = "dispatch" /\ requests' # requests)
            => received = <<>> /\ turns' = turns /\ Len(turns) >= 1]_vars

\* C24 witness: a batch of two calls, the first declined and the second with
\* an unknown function name, has its two results, in that order.
C24_Witness ==
    /\ loop \in Tools /\ pc = "dispatch" /\ received = <<>> /\ Len(turns) = 2
    /\ turns[1].id = <<requests, 1>> /\ turns[1].error = Denied
    /\ turns[2].id = <<requests, 2>> /\ ev.type = "noop" /\ turns[2].error # ""

\* The outputs with which a handler reports that it did what was asked.
Performed == {"content", "Successfully wrote", "output", "listing"}

\* C25: the result of a tool call that failed (declined, unknown tool,
\* malformed arguments, read or write error, rejected path, failed command)
\* has a non-empty error, and a result with an empty error means the effect
\* of the call was performed.
C25_FailureHasError ==
    (ev.step = "dispatch" /\ ev.via = "tool")
        => /\ ev.text \notin Performed => ev.fail # ""
           /\ ev.fail = "" => ev.text \in Performed

\* The kind each research action asks for, and the results they describe.
KindOfResearch ==
    [load_dataset |-> "read", analyze_data |-> "execute", train_model |-> "execute",
     evaluate_model |-> "execute", visualize |-> "write"]

Descriptive ==
    {"Dataset loaded", "Analysis complete", "Model trained", "Model evaluation complete",
     "Visualization saved"}

ResearchDispatched == ev'.step = "dispatch" /\ ev'.via = "research" /\ ev'.type \in ResearchTypes

\* C26: a research action returns its simulated result only when the grant of
\* its kind is true or the user grants it in that dispatch; when the grant is
\* false and the user declines, the result is a denial and files, snapshots
\* and permissions stay as they were.
C26_ResearchGated ==
    [][ResearchDispatched
         => LET k == KindOfResearch[ev'.type]
                held == checkPermission(P, k)
                granted == ev'.prompts = 1 /\ ToLower(ev'.ans[1]) \in {"y", "yes"}
            IN /\ ev'.text \in Descriptive \cup {DeniedResearch}
               /\ ev'.text \in Descriptive => held \/ granted
               /\ held => ev'.prompts = 0
               /\ (~held /\ ~granted)
                    => /\ ev'.text = DeniedResearch /\ ev'.prompts = 1
                       /\ files' = files /\ snaps' = snaps /\ P' = P
                       /\ ev'.eff = NoEffect]_vars

\* C26 witness: with the execute grant held and the read grant not, load_dataset
\* was declined and denied.
C26_Witness ==
    /\ ev.step = "dispatch" /\ ev.via = "research" /\ ev.type = "load_dataset"
    /\ ev.text = DeniedResearch /\ ev.prompts = 1
    /\ P.grants.execute /\ ~P.grants.read

\* C27: for an action that is not of a research type, the research dispatcher
\* does what the generic dispatcher does with the same action in the same
\* state (result, files, snapshots, permissions, prompts); an action of a type
\* neither knows gets "Unknown action type", without effect or prompt.
C27_FallsBackToGeneric ==
    [][(ev'.step = "dispatch" /\ ev'.via = "research" /\ ev'.type \notin ResearchTypes)
         => /\ \E u \in Inputs :
                 LET o == executeAction(World, Action(ev'.type, ev'.path, ev'.content, ev'.command), u, impl)
                 IN /\ files' = o.files /\ snaps' = o.snaps /\ P' = o.P
                    /\ ev'.text = o.text /\ ev'.data = o.data /\ ev'.eff = o.eff
                    /\ ev'.prompts = o.prompts
                    /\ ev'.ans = SubSeq(<<u.ans1, u.ans2>>, 1, o.prompts)
            /\ ev'.type \notin GenericTypes
                 => /\ ev'.text = "Unknown action type" /\ ev'.prompts = 0
                    /\ files' = files /\ snaps' = snaps /\ P' = P
                    /\ ev'.eff = NoEffect]_vars

\* C27 witness: the research loop wrote a file through the generic handler,
\* with a snapshot of the previous content.
C27_Witness ==
    /\ ev.step = "dispatch" /\ ev.via = "research" /\ ev.type = "write_file"
    /\ ev.text = "Successfully wrote" /\ files[Clean(PathA)] = "v1" /\ ev.eff.snap # <<>>

\* C28: when the snapshot of an existing target cannot be created, a permitted
\* write_file logs the failure and still writes: the target holds the new
\* content and the snapshot directory holds nothing of the previous one.
C28_SnapshotFailureLogged ==
    [][(/\ ev'.step = "dispatch" /\ ev'.type = "write_file"
        /\ snapDir # "ok" /\ Exists(files, ev'.path)
        /\ ~DenialResult(ev') /\ ev'.text # "not written")
         => /\ ev'.eff.snapWarn
            /\ snaps' = snaps
            /\ files'[Clean(ev'.path)] = ev'.content]_vars

\* C29: createSnapshot of a target that does not exist creates no snapshot
\* file and succeeds, without error or warning, in every handler generation.
C29_MissingTargetNoWarning ==
    [][(/\ ev'.step = "dispatch" /\ ev'.type = "write_file"
        /\ ~Exists(files, ev'.path)
        /\ ~DenialResult(ev') /\ ev'.text # "not written")
         => /\ snaps' = snaps /\ ev'.eff.snap = <<>>
            /\ ~ev'.eff.snapWarn]_vars

\* The results with which the handlers report a failure.
FailureTexts ==
    {"Error reading file", "Error writing file", "Error listing files", "Command failed"}

\* C30: a failure inside a handler becomes the result of its action; the round
\* goes on with the next action, and it ends only when every action received
\* has been dispatched and has its result.
C30_FailureIsAResult ==
    [][/\ (ev'.step = "dispatch" /\ ev'.via \in Transcript /\ ev'.text \in FailureTexts)
            => /\ turns' = Append(turns, [id |-> 0, output |-> ev'.text, error |-> ""])
               /\ received # <<>> /\ received' = Tail(received)
               /\ pc' = "dispatch" /\ stop' = stop
       /\ (loop \in Transcript /\ pc = "dispatch" /\ pc' # "dispatch")
            => received = <<>>]_vars

\* C30 witness: in a round of two the read of a missing file failed, and the
\* command after it was run and has its own (failure) result.
C30_Witness ==
    /\ loop \in Transcript /\ pc = "dispatch" /\ received = <<>> /\ Len(turns) = 3
    /\ turns[2].output = "Error reading file"
    /\ turns[3].output = "Command failed" /\ ev.eff.spawned

\* C31: the step with which a loop stops (remote failure, cap, completion)
\* restores nothing: files, snapshots and grants are as they were before it,
\* apart from what the handler run in that very step did; the same holds when
\* the invocation ends.
C31_StopRestoresNothing ==
    [][/\ (pc # "returned" /\ pc' = "returned")
            => IF ev'.step = "dispatch"
               THEN \E u \in Inputs :
                       LET o == writeFile(World, ev'.path, ev'.content, u)
                       IN files' = o.files /\ snaps' = o.snaps /\ P' = o.P
               ELSE files' = files /\ snaps' = snaps /\ P' = P
       /\ pc = "returned" => (files' = files /\ snaps' = snaps /\ P' = P)]_vars

\* C31 witness: the remote failed after a round that wrote a file; the file
\* holds what was written, and the snapshot and the grant are there.
C31_Witness ==
    /\ pc = "returned" /\ stop = "error" /\ ev.step = "fail"
    /\ files[Clean(PathA)] = "v1" /\ DOMAIN snaps # {} /\ P.grants.write

\* The list a rollback displayed.
Listed(e) == IF e.data = <<>> THEN <<>> ELSE e.data[1]

\* C32: in the list rollback displays, the snapshots of one original file are
\* next to each other, newest first with strictly descending timestamps, and
\* selection n restores the n-th entry of that list.
C32_ListedNewestFirst ==
    [][ev'.step = "rollback"
         => LET L == Listed(ev')
            IN /\ \A i, j, k \in 1..Len(L) :
                     (i < j /\ j < k /\ L[i].OriginalFile = L[k].OriginalFile)
                        => L[j].OriginalFile = L[i].OriginalFile
               /\ \A i, j \in 1..Len(L) :
                     (i < j /\ L[i].OriginalFile = L[j].OriginalFile)
                        => StampIndex(L[i].Timestamp) > StampIndex(L[j].Timestamp)
               /\ ev'.text = "Restored"
                     => LET n == ScanInt(ev'.ans[1])
                        IN /\ n \in 1..Len(L)
                           /\ ev'.eff.snap = <<L[n].SnapshotFile>>
                           /\ files'[<<L[n].OriginalFile>>] = snaps[L[n].SnapshotFile]]_vars

\* C32 witness: three snapshots of two files were listed, two of them of the
\* same file, and the second entry was restored.
C32_Witness ==
    /\ ev.step = "rollback" /\ ev.text = "Restored" /\ ev.ans[1] = "2"
    /\ Len(Listed(ev)) = 3
    /\ \E i, j \in 1..3 : i # j /\ Listed(ev)[i].OriginalFile = Listed(ev)[j].OriginalFile
    /\ \E i, j \in 1..3 : Listed(ev)[i].OriginalFile # Listed(ev)[j].OriginalFile

\* C33: the name createSnapshot gives the snapshot of a file with base name b
\* taken at time t is parsed back into originalFile = b and timestamp = t,
\* whatever the number of dots in b; rollback lists the snapshots taken, each
\* under the base name of its file, and skips the entries without the .snap
\* suffix or with fewer than three parts.
C33_NameRoundTrip ==
    [][/\ (ev'.step = "dispatch" /\ ev'.eff.snap # <<>>)
            => ParseSnapshot(ev'.eff.snap[1])
                  = <<[OriginalFile |-> Base(ev'.path), Timestamp |-> Format(now),
                       SnapshotFile |-> ev'.eff.snap[1]]>>
       /\ ev'.step = "rollback"
            => LET L == Listed(ev')
               IN /\ \A i \in 1..Len(L) :
                        /\ L[i].SnapshotFile \in DOMAIN origin
                        /\ L[i].OriginalFile = Base(origin[L[i].SnapshotFile])
                  /\ \A n \in DOMAIN origin :
                        (\E i \in 1..Len(L) : L[i].OriginalFile = Base(origin[n]))
                           => \E i \in 1..Len(L) : L[i].SnapshotFile = n]_vars

\* C33 witness: with a stray file in the snapshot directory, rollback listed
\* the snapshot of a.tar.gz under that name.
C33_Witness ==
    /\ ev.step = "rollback" /\ Len(Listed(ev)) = 1
    /\ Listed(ev)[1].OriginalFile = <<"a", "tar", "gz">>
    /\ DOMAIN snaps # DOMAIN origin

\* The response is the decimal numeral of n.
Numeral(r, n) == (r = "1" /\ n = 1) \/ (r = "2" /\ n = 2)

\* C34: a selection (an answer other than c and the empty line) that is not
\* an integer between 1 and the number of listed snapshots is rejected with
\* an error message, without confirmation prompt and without any file
\* modified.
C34_InvalidSelectionRejected ==
    [][(/\ ev'.step = "rollback" /\ ev'.prompts >= 1
        /\ ev'.ans[1] \notin {"c", ""}
        /\ ~\E n \in 1..Len(Listed(ev')) : Numeral(ev'.ans[1], n))
         => /\ ev'.text = "Invalid selection"
            /\ ev'.prompts = 1
            /\ files' = files]_vars

\* C35: with a target-file filter, rollback lists only snapshots whose parsed
\* original file is the filter, and changes no file but the one of that name;
\* when no snapshot matches, it reports that, asks nothing and changes
\* nothing.
C35_FilterConfines ==
    [][(ev'.step = "rollback" /\ ev'.args # <<>>)
         => LET f == ev'.args[1]
                L == Listed(ev')
                matching == {x \in SnapshotInfos(snaps) : x.OriginalFile = f}
            IN /\ \A i \in 1..Len(L) : L[i].OriginalFile = f
               /\ \A l \in DOMAIN files' :
                     l # <<f>> => (l \in DOMAIN files /\ files'[l] = files[l])
               /\ matching = {}
                     => /\ ev'.text \in {"No snapshots found for", "No snapshots available"}
                        /\ ev'.prompts = 0 /\ files' = files]_vars

\* C35 witness: with snapshots of a.txt and of a.tar.gz in the directory, a
\* rollback filtered to a.txt restored a.txt.
C35_Witness ==
    /\ ev.step = "rollback" /\ ev.args = <<NameA>> /\ ev.text = "Restored"
    /\ ev.path = PathA /\ files[PathA] = "v0"
    /\ \E x \in SnapshotInfos(snaps) : x.OriginalFile = <<"a", "tar", "gz">>

\* C38: snapshots of two different files are never confused: a snapshot taken
\* of one file never gets the name of a snapshot taken of another, and two
\* snapshots taken of different files are not parsed into the same original
\* file.
C38_SnapshotsTellFilesApart ==
    [][/\ (ev'.step = "dispatch" /\ ev'.eff.snap # <<>> /\ ev'.eff.snap[1] \in DOMAIN origin)
            => origin[ev'.eff.snap[1]] = Clean(ev'.path)
       /\ \A n, m \in DOMAIN origin' :
            origin'[n] # origin'[m]
               => ParseSnapshot(n)[1].OriginalFile # ParseSnapshot(m)[1].OriginalFile]_vars

\* C36: a tool call whose function name is none of execute_command,
\* write_file, read_file and list_files never prompts and never changes the
\* permission file; its result is the "unknown tool" error.
C36_UnknownToolAsksNothing ==
    [][(ev'.step = "dispatch" /\ ev'.via = "tool" /\ ev'.type \notin GenericTypes)
         => /\ ev'.prompts = 0
            /\ P' = P
            /\ ev'.fail = "unknown tool"]_vars

\* C37: a write_file rejected for a path that leads out of the project
\* changes nothing but, possibly, a grant: no file is written, no file
\* outside the project is read and no snapshot is added.
C37_RejectedWriteLeavesNoTrace ==
    [][(/\ ev'.step = "dispatch" /\ ev'.type = "write_file"
        /\ ev'.text = "Error writing file" /\ HasDotDotPrefix(Clean(ev'.path)))
         => /\ files' = files
            /\ snaps' = snaps
            /\ ev'.eff.snap = <<>>]_vars

\* C40: for one tool call, whose permission is checked by executeToolCall
\* and again by the handler, the user is asked at most once, and a call the
\* user approved does not end in a permission-denied result.
C40_OnePromptPerToolCall ==
    [][(ev'.step = "dispatch" /\ ev'.via = "tool")
         => /\ ev'.prompts <= 1
            /\ (ev'.prompts >= 1 /\ ToLower(ev'.ans[1]) \in {"y", "yes"})
                  => ~DenialResult(ev')]_vars

\* C39: when two invocations running at the same time each had a request of
\* a different kind accepted, both grants are true in the permission file
\* once both have finished.
C39_NoGrantLost ==
    (/\ pc = "returned" /\ peer.pc = "done"
     /\ accepted # {} /\ peer.kind \notin accepted)
        => /\ P.grants[peer.kind]
           /\ \A k \in accepted : P.grants[k]

====
